---- MODULE Spec2Model ----
(***************************************************************************)
(* Model of update_manifest.py: the one-shot scan of the pack directories  *)
(* next to the script, and the rewrite of manifest.json and                *)
(* checksums.sha256.                                                       *)
(*                                                                         *)
(* Python strings that the program compares, lower-cases, searches or      *)
(* sorts are sequences of code points, so that str.lower(), `in`, `<` and  *)
(* sorted() are computed as Python computes them.  An f-string whose       *)
(* result is only stored (the URLs) is the tuple of its parts, in order.   *)
(* A content file is its parsed JSON together with the two attributes of   *)
(* its bytes the program reads: the byte length and the SHA-256 hex        *)
(* digest (abbreviated to two hex characters).                             *)
(***************************************************************************)
EXTENDS Integers, Sequences, FiniteSets, TLC

(***************************************************************************)
(* Bounds of the model.                                                    *)
(***************************************************************************)
MaxRuns == 2       \* runs of the script in one behaviour
MaxClock == 1      \* latest value datetime.utcnow() returns (seconds)
MaxVanish == 1     \* content files another process deletes during the runs
MaxCats == 3       \* categories of a generated content document
MaxCards == 2      \* cards of a category of a generated content document

(***************************************************************************)
(* String literals, as code points.                                        *)
(***************************************************************************)
EmptyStr == <<>>
str_a == <<97>>                                            \* "a"
str_b == <<98>>                                            \* "b"
str_hidden == <<46, 104>>                                  \* ".h"
str_pycache == <<95, 95, 112, 121, 99, 97, 99, 104, 101, 95, 95>> \* "__pycache__"
str_DE == <<68, 69>>                                       \* "DE"
str_EN == <<69, 78>>                                       \* "EN"
str_AR == <<65, 82>>                                       \* "AR"
str_FR == <<70, 82>>                                       \* "FR"
str_German == <<71, 101, 114, 109, 97, 110>>               \* "German"
str_English == <<69, 110, 103, 108, 105, 115, 104>>        \* "English"
str_Arabic == <<65, 114, 97, 98, 105, 99>>                 \* "Arabic"
str_phrases == <<112, 104, 114, 97, 115, 101, 115>>        \* "phrases"
str_PhrasesLabel == <<32, 80, 104, 114, 97, 115, 101, 115>> \* " Phrases"
str_BasicsLabel == <<32, 66, 97, 115, 105, 99, 115>>       \* " Basics"
str_dash == <<45>>                                         \* "-"
str_underscore == <<95>>                                   \* "_"
str_A1 == <<95, 65, 49>>                                   \* "_A1"
str_content_json == <<47, 99, 111, 110, 116, 101, 110, 116, 46, 106, 115, 111, 110>> \* "/content.json"
str_two_spaces == <<32, 32>>                               \* "  "
str_newline == <<10>>                                      \* "\n"
str_default_version == <<49, 46, 48, 46, 48>>              \* "1.0.0"
str_version_2 == <<50, 46, 49, 46, 48>>                    \* "2.1.0"
str_de_ar_phrases == <<100, 101, 95, 97, 114, 95, 80, 104, 114, 97, 115, 101, 115>> \* "de_ar_Phrases"
str_date_hour == <<49, 57, 55, 48, 45, 48, 49, 45, 48, 49, 84, 48, 48, 58>> \* "1970-01-01T00:"
str_colon == <<58>>                                        \* ":"
str_Z == <<90>>                                            \* "Z"
digest_1 == <<49, 98>>                                     \* "1b"
digest_2 == <<57, 99>>                                     \* "9c"
digest_3 == <<101, 52>>                                    \* "e4"
digest_4 == <<51, 97>>                                     \* "3a"
digest_5 == <<53, 102>>                                    \* "5f"
digest_6 == <<55, 100>>                                    \* "7d"

(***************************************************************************)
(* Python string operations.                                               *)
(***************************************************************************)
\* str.lower() on one code point: 'A'..'Z' move to 'a'..'z'
lower_char(c) == IF c >= 65 /\ c <= 90 THEN c + 32 ELSE c

\* str.lower()
lower(s) == [i \in 1..Len(s) |-> lower_char(s[i])]

\* s < t on str: by code point, a proper prefix is smaller
str_lt(s, t) ==
    \E i \in 1..(Len(t)) :
        /\ \A j \in 1..(i-1) : j <= Len(s) /\ s[j] = t[j]
        /\ \/ i = Len(s) + 1
           \/ i <= Len(s) /\ s[i] < t[i]

\* p in s on str
str_contains(s, p) ==
    \E i \in 0..(Len(s) - Len(p)) : SubSeq(s, i + 1, i + Len(p)) = p

\* s.startswith('.')
startswith_dot(s) == Len(s) >= 1 /\ s[1] = 46

\* sep.join(lines)
join(sep, lines) ==
    LET f[i \in 0..Len(lines)] ==
            IF i = 0 THEN <<>>
            ELSE IF i = 1 THEN lines[1]
            ELSE f[i-1] \o sep \o lines[i]
    IN  f[Len(lines)]

(***************************************************************************)
(* sorted(): a stable sort that compares with < only.                      *)
(***************************************************************************)
\* the index x goes before the first index of order whose key is greater
insert_sorted(order, x, keys) ==
    LET later == {i \in 1..Len(order) : str_lt(keys[x], keys[order[i]])}
        pos == IF later = {} THEN Len(order) + 1
               ELSE CHOOSE i \in later : \A j \in later : i <= j
    IN  SubSeq(order, 1, pos - 1) \o <<x>> \o SubSeq(order, pos, Len(order))

\* sorted(s, key=...), keys[i] the key of s[i]
sorted(s, keys) ==
    LET order[i \in 0..Len(s)] ==
            IF i = 0 THEN <<>> ELSE insert_sorted(order[i-1], i, keys)
    IN  [k \in 1..Len(s) |-> s[order[Len(s)][k]]]

\* sorted(packs, key=lambda x: x["pack_id"])
sorted_packs_unsorted(packs) == packs

sorted_packs(packs) == sorted(packs, [i \in 1..Len(packs) |-> packs[i].pack_id])

\* sorted(checksums)
sorted_checksums(lines) == sorted(lines, lines)

(***************************************************************************)
(* Files.  A content.json or metadata.json is                               *)
(*   state   "absent" | "unreadable" (open() raises PermissionError) |     *)
(*           "file"                                                        *)
(*   json    what json.load returns: kind "malformed" (JSONDecodeError),   *)
(*           "scalar" (a JSON number), "list" (a JSON array) or "object"   *)
(*   digest  hex SHA-256 of the bytes, nbytes  their length                *)
(***************************************************************************)
NoObject == [has |-> {}, categories |-> <<>>, source_language |-> EmptyStr,
             target_language |-> EmptyStr, pack_id |-> EmptyStr, version |-> EmptyStr]

AbsentFile == [state |-> "absent", kind |-> "none", obj |-> NoObject,
               digest |-> EmptyStr, nbytes |-> 0]

\* a content document {"categories": cats}, or {} when has_categories is FALSE
ContentObject(has_categories, cats) ==
    [NoObject EXCEPT !.has = IF has_categories THEN {"categories"} ELSE {},
                     !.categories = cats]

ContentFile(kind, obj, digest, nbytes) ==
    [state |-> "file", kind |-> kind, obj |-> obj, digest |-> digest, nbytes |-> nbytes]

\* a category {"cards": cards}, or {} when has_cards is FALSE
Category(has_cards, cards) == [has_cards |-> has_cards, cards |-> cards]

MetadataObject(has, src, tgt, id, ver) ==
    [NoObject EXCEPT !.has = has, !.source_language = src, !.target_language = tgt,
                     !.pack_id = id, !.version = ver]

MetadataFile(kind, obj) ==
    [state |-> "file", kind |-> kind, obj |-> obj, digest |-> EmptyStr, nbytes |-> 0]

(***************************************************************************)
(* The helper functions.  A result is a record whose field exc names the   *)
(* exception that leaves the function ("none" when it returns).            *)
(***************************************************************************)
calculate_sha256_no_none(file) ==
    CASE file.state = "unreadable" -> [exc |-> "PermissionError", is_none |-> FALSE, val |-> EmptyStr]
      [] OTHER -> [exc |-> "none", is_none |-> FALSE, val |-> file.digest]

\* FileNotFoundError is caught and gives None; any other OSError leaves
calculate_sha256(file) ==
    CASE file.state = "absent" -> [exc |-> "none", is_none |-> TRUE, val |-> EmptyStr]
      [] file.state = "unreadable" -> [exc |-> "PermissionError", is_none |-> FALSE, val |-> EmptyStr]
      [] OTHER -> [exc |-> "none", is_none |-> FALSE, val |-> file.digest]

get_file_size(file) ==
    IF file.state = "absent" THEN 0 ELSE file.nbytes

\* the loop over content['categories'], total_cards its accumulator
count_loop_categories(cats) ==
    LET total_cards[i \in 0..Len(cats)] ==
            IF i = 0 THEN 0
            ELSE IF cats[i].has_cards THEN total_cards[i-1] + 1
            ELSE total_cards[i-1]
    IN  total_cards[Len(cats)]

count_loop(cats) ==
    LET total_cards[i \in 0..Len(cats)] ==
            IF i = 0 THEN 0
            ELSE IF cats[i].has_cards THEN total_cards[i-1] + Len(cats[i].cards)
            ELSE total_cards[i-1]
    IN  total_cards[Len(cats)]

count_cards_in_content(file) ==
    CASE file.state = "absent" -> [exc |-> "none", val |-> 0]
      [] file.state = "unreadable" -> [exc |-> "PermissionError", val |-> 0]
      [] file.kind = "malformed" -> [exc |-> "none", val |-> 0]
      [] file.kind = "scalar" -> [exc |-> "TypeError", val |-> 0]
      [] file.kind = "list" -> [exc |-> "none", val |-> 0]
      [] OTHER ->
            IF "categories" \in file.obj.has
            THEN [exc |-> "none", val |-> count_loop(file.obj.categories)]
            ELSE [exc |-> "none", val |-> 0]

MetadataDefaults ==
    [exc |-> "none", source_lang |-> EmptyStr, target_lang |-> EmptyStr,
     pack_id |-> EmptyStr, version |-> str_default_version]

\* metadata.get(key, default)
dict_get(obj, key, val, default) == IF key \in obj.has THEN val ELSE default

get_language_from_metadata(file) ==
    CASE file.state = "absent" -> MetadataDefaults
      [] file.state = "unreadable" -> [MetadataDefaults EXCEPT !.exc = "PermissionError"]
      [] file.kind = "malformed" -> MetadataDefaults
      [] file.kind \in {"scalar", "list"} -> [MetadataDefaults EXCEPT !.exc = "AttributeError"]
      [] OTHER ->
            [exc |-> "none",
             source_lang |-> dict_get(file.obj, "source_language", file.obj.source_language, EmptyStr),
             target_lang |-> dict_get(file.obj, "target_language", file.obj.target_language, EmptyStr),
             pack_id |-> dict_get(file.obj, "pack_id", file.obj.pack_id, EmptyStr),
             version |-> dict_get(file.obj, "version", file.obj.version, str_default_version)]

\* lang_names.get(code, code)
lang_names(code) ==
    CASE code = str_DE -> str_German
      [] code = str_EN -> str_English
      [] code = str_AR -> str_Arabic
      [] OTHER -> code

generate_pack_name(source_lang, target_lang, pack_id) ==
    IF str_contains(lower(pack_id), str_phrases)
    THEN lang_names(source_lang) \o str_dash \o lang_names(target_lang) \o str_PhrasesLabel
    ELSE lang_names(source_lang) \o str_dash \o lang_names(target_lang) \o str_BasicsLabel

get_flag_url(lang_code) ==
    <<"https://raw.githubusercontent.com/iven86/language-packs/main/flags/",
      lower(lang_code), ".png">>

\* the dict literal {source_lang: ..., target_lang: ...}: one entry when the keys agree
flag_urls(source_lang, target_lang) ==
    IF source_lang = target_lang
    THEN << [key |-> source_lang, url |-> get_flag_url(target_lang)] >>
    ELSE << [key |-> source_lang, url |-> get_flag_url(source_lang)],
            [key |-> target_lang, url |-> get_flag_url(target_lang)] >>

\* if not pack_id: pack_id = f"{source_lang.lower()}_{target_lang.lower()}_A1"
effective_pack_id_raw(meta) == meta.pack_id

effective_pack_id(meta) ==
    IF meta.pack_id = EmptyStr
    THEN lower(meta.source_lang) \o str_underscore \o lower(meta.target_lang) \o str_A1
    ELSE meta.pack_id

download_url(item) ==
    <<"https://raw.githubusercontent.com/iven86/language-packs/refs/heads/main/",
      item, "/content.json">>

metadata_url(item) ==
    <<"https://raw.githubusercontent.com/iven86/language-packs/refs/heads/main/",
      item, "/metadata.json">>

pack_entry(item, checksum, file_size, card_count, meta) ==
    [pack_id |-> effective_pack_id(meta),
     name |-> generate_pack_name(meta.source_lang, meta.target_lang, effective_pack_id(meta)),
     version |-> meta.version,
     languages |-> <<meta.source_lang, meta.target_lang>>,
     flag_urls |-> flag_urls(meta.source_lang, meta.target_lang),
     size |-> card_count,
     fileSize |-> file_size,
     download_url |-> download_url(item),
     metadata_url |-> metadata_url(item),
     checksum |-> checksum]

\* f"{checksum}  {item}/content.json"
checksum_line(checksum, item) == checksum \o str_two_spaces \o item \o str_content_json

(***************************************************************************)
(* manifest.json.  A JSON object is the sequence of its entries, in key    *)
(* order, as json.load and json.dump keep it.  An entry holds a string     *)
(* (kind "str") or a list of pack entries (kind "list").                   *)
(***************************************************************************)
StrEntry(key, str) == [key |-> key, kind |-> "str", str |-> str, list |-> <<>>]

ListEntry(key, list) == [key |-> key, kind |-> "list", str |-> EmptyStr, list |-> list]

\* d[key] = entry: an existing key keeps its place, a new key goes last
dict_set(d, entry) ==
    IF \E i \in 1..Len(d) : d[i].key = entry.key
    THEN [i \in 1..Len(d) |-> IF d[i].key = entry.key THEN entry ELSE d[i]]
    ELSE Append(d, entry)

\* the manifest created when manifest.json does not exist
new_manifest == << StrEntry("last_updated", EmptyStr), ListEntry("packs", <<>>) >>

two_digits(n) == << 48 + ((n \div 10) % 10), 48 + (n % 10) >>

\* datetime.strftime("%Y-%m-%dT%H:%M:%SZ") of t seconds after the epoch, t < 3600
strftime(t) ==
    str_date_hour \o two_digits(t \div 60) \o str_colon \o two_digits(t % 60) \o str_Z

(***************************************************************************)
(* State.                                                                  *)
(***************************************************************************)
VARIABLES
    tree,               \* base_dir: child name -> [kind, content, metadata]
    manifestFile,       \* manifest.json: [kind, dict]
    checksumsFile,      \* checksums.sha256: [exists, text]
    clock,              \* the last time datetime.utcnow() returned
    pc,                 \* "start", "scan", "done" (exit 0), "failed" (exit 1)
    error,              \* the exception that ended the run, and where
    manifest,           \* local: the loaded manifest
    listing,            \* local: what os.listdir(base_dir) returned
    idx,                \* local: position of the for loop in listing
    packs,              \* local
    checksums,          \* local
    run,                \* number of the current run
    vanishLeft,         \* content files that may still be deleted
    lastRace,           \* history: the deletion during the last iteration
    startTree,          \* history: tree when the current run started
    startManifestFile,  \* history: manifest.json when the current run started
    startChecksumsFile, \* history: checksums.sha256 when the current run started
    prevTree            \* history: tree when the previous run started

vars == << tree, manifestFile, checksumsFile, clock, pc, error, manifest, listing,
           idx, packs, checksums, run, vanishLeft, lastRace, startTree,
           startManifestFile, startChecksumsFile, prevTree >>

NoChild == [kind |-> "none", content |-> AbsentFile, metadata |-> AbsentFile]

RegularFile == [kind |-> "file", content |-> AbsentFile, metadata |-> AbsentFile]

Directory(content, metadata) == [kind |-> "dir", content |-> content, metadata |-> metadata]

Names == {str_a, str_b, str_hidden, str_pycache}

NoError == [exc |-> "none", where |-> "none"]

(***************************************************************************)
(* The inputs of the model.                                                *)
(***************************************************************************)
doc_A == ContentFile("object", ContentObject(TRUE, << Category(TRUE, <<1, 2, 3>>) >>), digest_2, 34)

doc_B == ContentFile("object",
            ContentObject(TRUE, << Category(TRUE, <<1>>), Category(FALSE, <<>>),
                                   Category(TRUE, <<1, 2>>) >>), digest_1, 49)

doc_empty == ContentFile("object", ContentObject(FALSE, <<>>), digest_3, 2)

doc_malformed == ContentFile("malformed", NoObject, digest_4, 14)

doc_scalar == ContentFile("scalar", NoObject, digest_5, 1)

doc_unreadable == [doc_A EXCEPT !.state = "unreadable", !.digest = digest_6]

ContentChoices == {doc_A, doc_B, doc_empty, doc_malformed, doc_scalar, doc_unreadable}

meta_malformed == MetadataFile("malformed", NoObject)

meta_list == MetadataFile("list", NoObject)

meta_empty_object == MetadataFile("object", NoObject)

meta_en_de == MetadataFile("object",
    MetadataObject({"source_language", "target_language"}, str_EN, str_DE, EmptyStr, EmptyStr))

meta_full == MetadataFile("object",
    MetadataObject({"source_language", "target_language", "pack_id", "version"},
                   str_DE, str_AR, str_de_ar_phrases, str_version_2))

meta_same == MetadataFile("object",
    MetadataObject({"source_language", "target_language", "pack_id"},
                   str_FR, str_FR, EmptyStr, EmptyStr))

MetaChoices == {AbsentFile, meta_malformed, meta_list, meta_empty_object,
                meta_en_de, meta_full, meta_same}

\* what the directory a may be
ChildChoicesA ==
    {NoChild, Directory(AbsentFile, AbsentFile), Directory(AbsentFile, meta_en_de)}
    \cup {Directory(c, AbsentFile) : c \in ContentChoices}
    \cup {Directory(doc_A, m) : m \in MetaChoices}

\* what the child b may be
ChildChoicesB ==
    {NoChild, RegularFile, Directory(AbsentFile, meta_en_de),
     Directory(doc_A, AbsentFile), Directory(doc_B, AbsentFile)}

\* a third child: none, a hidden directory, or the interpreter's cache
OtherChoices ==
    { [n \in {str_hidden, str_pycache} |-> NoChild],
      [n \in {str_hidden, str_pycache} |->
          IF n = str_hidden THEN Directory(doc_A, meta_en_de) ELSE NoChild],
      [n \in {str_hidden, str_pycache} |->
          IF n = str_pycache THEN Directory(doc_B, AbsentFile) ELSE NoChild] }

Trees ==
    { [n \in Names |->
          CASE n = str_a -> a
            [] n = str_b -> b
            [] OTHER -> o[n]] :
      a \in ChildChoicesA, b \in ChildChoicesB, o \in OtherChoices }

stale_pack == pack_entry(str_b, digest_3, 2, 0, [MetadataDefaults EXCEPT !.pack_id = str_b])

stale_checksums == checksum_line(digest_3, str_b) \o str_newline

NoManifestFile == [kind |-> "absent", dict |-> <<>>]

\* the states of manifest.json and checksums.sha256 a run may find
PriorChoices ==
    { [m |-> NoManifestFile, c |-> [exists |-> FALSE, text |-> EmptyStr]],
      [m |-> [kind |-> "dict",
              dict |-> << StrEntry("last_updated", strftime(0)), ListEntry("packs", <<stale_pack>>) >>],
       c |-> [exists |-> TRUE, text |-> stale_checksums]],
      [m |-> [kind |-> "dict",
              dict |-> << ListEntry("packs", <<stale_pack>>), StrEntry("schema", str_version_2),
                          StrEntry("last_updated", strftime(0)) >>],
       c |-> [exists |-> FALSE, text |-> EmptyStr]],
      [m |-> [kind |-> "malformed", dict |-> <<>>], c |-> [exists |-> FALSE, text |-> EmptyStr]],
      [m |-> [kind |-> "list", dict |-> <<>>], c |-> [exists |-> TRUE, text |-> stale_checksums]] }

InitWith(t, prior) ==
    /\ tree = t
    /\ manifestFile = prior.m
    /\ checksumsFile = prior.c
    /\ clock = 0
    /\ pc = "start"
    /\ error = NoError
    /\ manifest = [kind |-> "dict", dict |-> <<>>]
    /\ listing = <<>>
    /\ idx = 1
    /\ packs = <<>>
    /\ checksums = <<>>
    /\ run = 1
    /\ vanishLeft = MaxVanish
    /\ lastRace = "none"
    /\ startTree = t
    /\ startManifestFile = prior.m
    /\ startChecksumsFile = prior.c
    /\ prevTree = t

Init == \E t \in Trees, prior \in PriorChoices : InitWith(t, prior)

(***************************************************************************)
(* update_manifest(), one action per block of the function.                *)
(***************************************************************************)
\* os.listdir(base_dir): the children, in any order
listdir(t) ==
    LET present == {n \in Names : t[n].kind # "none"}
    IN  {l \in [1..Cardinality(present) -> present] :
            \A i, j \in 1..Cardinality(present) : l[i] = l[j] => i = j}

\* lines 103 and 110: the two tests that skip a child
is_candidate_any_name(t, item) ==
    /\ t[item].kind = "dir"
    /\ item # str_pycache

is_candidate(t, item) ==
    /\ t[item].kind = "dir"
    /\ ~startswith_dot(item)
    /\ item # str_pycache

has_content(t, item) == t[item].content.state # "absent"

\* lines 85-93: json.load of manifest.json, or the new manifest when it is absent
load_manifest_fresh(file) == [kind |-> "dict", dict |-> new_manifest]

load_manifest(file) ==
    IF file.kind = "absent" THEN [kind |-> "dict", dict |-> new_manifest] ELSE file

\* lines 81-99: load manifest.json, start the scan
Load ==
    /\ pc = "start"
    /\ startTree' = tree
    /\ startManifestFile' = manifestFile
    /\ startChecksumsFile' = checksumsFile
    /\ prevTree' = startTree
    /\ IF manifestFile.kind = "malformed"
       THEN /\ pc' = "failed"
            /\ error' = [exc |-> "JSONDecodeError", where |-> "manifest"]
            /\ UNCHANGED << manifest, listing, idx, packs, checksums >>
       ELSE /\ manifest' = load_manifest(manifestFile)
            /\ packs' = <<>>
            /\ checksums' = <<>>
            /\ \E l \in listdir(tree) : listing' = l
            /\ idx' = 1
            /\ pc' = "scan"
            /\ UNCHANGED error
    /\ UNCHANGED << tree, manifestFile, checksumsFile, clock, run, vanishLeft, lastRace >>

\* the moments another process may delete content.json after line 110 saw it
Races == {"none", "before_sha256", "before_getsize", "before_count"}

\* lines 113-155 for a child that passed the tests of lines 103 and 110:
\* the exception raised, or whether the pack is skipped, or what is appended
process_pack(t, item, race) ==
    LET content == t[item].content
        sha == calculate_sha256(IF race = "before_sha256" THEN AbsentFile ELSE content)
        file_size == get_file_size(IF race \in {"before_sha256", "before_getsize"}
                                   THEN AbsentFile ELSE content)
        card_count == count_cards_in_content(IF race = "none" THEN content ELSE AbsentFile)
        meta == get_language_from_metadata(t[item].metadata)
        raised == IF sha.exc # "none" THEN sha.exc
                  ELSE IF sha.is_none THEN "none"
                  ELSE IF card_count.exc # "none" THEN card_count.exc
                  ELSE meta.exc
    IN  [raised |-> raised,
         skipped |-> sha.is_none,
         entry |-> pack_entry(item, sha.val, file_size, card_count.val, meta),
         line |-> checksum_line(sha.val, item)]

\* lines 99-161: one iteration of the for loop
Iterate ==
    /\ pc = "scan"
    /\ idx <= Len(listing)
    /\ LET item == listing[idx]
       IN  IF ~is_candidate(tree, item) \/ ~has_content(tree, item)
           THEN /\ idx' = idx + 1
                /\ lastRace' = "none"
                /\ UNCHANGED << tree, pc, error, packs, checksums, vanishLeft >>
           ELSE \E race \in Races :
                /\ race # "none" => vanishLeft > 0
                /\ lastRace' = race
                /\ vanishLeft' = IF race = "none" THEN vanishLeft ELSE vanishLeft - 1
                /\ tree' = IF race = "none" THEN tree
                           ELSE [tree EXCEPT ![item].content = AbsentFile]
                /\ LET r == process_pack(tree, item, race)
                   IN  IF r.raised # "none"
                       THEN /\ pc' = "failed"
                            /\ error' = [exc |-> r.raised, where |-> "pack"]
                            /\ UNCHANGED << idx, packs, checksums >>
                       ELSE /\ idx' = idx + 1
                            /\ UNCHANGED << pc, error >>
                            /\ IF r.skipped
                               THEN UNCHANGED << packs, checksums >>
                               ELSE /\ packs' = Append(packs, r.entry)
                                    /\ checksums' = Append(checksums, r.line)
    /\ UNCHANGED << manifestFile, checksumsFile, clock, manifest, listing, run,
                    startTree, startManifestFile, startChecksumsFile, prevTree >>

\* what line 177 writes
checksums_text(lines) == join(str_newline, sorted_checksums(lines)) \o str_newline

\* lines 174-177: checksums.sha256 after the run
write_checksums_always(file, lines) == [exists |-> TRUE, text |-> checksums_text(lines)]

write_checksums(file, lines) ==
    IF lines # <<>> THEN [exists |-> TRUE, text |-> checksums_text(lines)] ELSE file

\* lines 163-181: update and write the manifest, write the checksums
Finish ==
    /\ pc = "scan"
    /\ idx > Len(listing)
    /\ IF manifest.kind # "dict"
       THEN /\ pc' = "failed"
            /\ error' = [exc |-> "TypeError", where |-> "manifest"]
            /\ UNCHANGED << manifest, manifestFile, checksumsFile, clock >>
       ELSE \E now \in {clock, clock + 1} :
            /\ now <= MaxClock
            /\ clock' = now
            /\ manifest' = [manifest EXCEPT !.dict =
                    dict_set(dict_set(manifest.dict, StrEntry("last_updated", strftime(now))),
                             ListEntry("packs", sorted_packs(packs)))]
            /\ manifestFile' = manifest'
            /\ checksumsFile' = write_checksums(checksumsFile, checksums)
            /\ pc' = "done"
            /\ UNCHANGED error
    /\ UNCHANGED << tree, listing, idx, packs, checksums, run, vanishLeft, lastRace,
                    startTree, startManifestFile, startChecksumsFile, prevTree >>

\* lines 183-193: the script is started again, in a new process
Rerun ==
    /\ pc \in {"done", "failed"}
    /\ run < MaxRuns
    /\ run' = run + 1
    /\ pc' = "start"
    /\ error' = NoError
    /\ manifest' = [kind |-> "dict", dict |-> <<>>]
    /\ listing' = <<>>
    /\ idx' = 1
    /\ packs' = <<>>
    /\ checksums' = <<>>
    /\ lastRace' = "none"
    /\ UNCHANGED << vanishLeft, tree, manifestFile, checksumsFile, clock,
                    startTree, startManifestFile, startChecksumsFile, prevTree >>

Next == Load \/ Iterate \/ Finish \/ Rerun

Spec == Init /\ [][Next]_vars

TypeOK ==
    /\ pc \in {"start", "scan", "done", "failed"}
    /\ run \in 1..MaxRuns
    /\ clock \in 0..MaxClock
    /\ vanishLeft \in 0..MaxVanish
    /\ Len(packs) = Len(checksums)

(***************************************************************************)
(* Reading the outputs back.                                               *)
(***************************************************************************)
\* the entries of a JSON object under a key
entries_of(d, key) == SelectSeq(d, LAMBDA e : e.key = key)

\* manifest.json's "packs" and "last_updated"
written_packs == entries_of(manifestFile.dict, "packs")[1].list

written_last_updated == entries_of(manifestFile.dict, "last_updated")[1].str

\* the lines of a newline-terminated text
text_lines(text) ==
    LET ends == {i \in 1..Len(text) : text[i] = 10}
        start(i) == IF \E j \in ends : j < i
                    THEN (CHOOSE j \in ends : j < i /\ \A k \in ends : k < i => k <= j) + 1
                    ELSE 1
        f[i \in 0..Len(text)] ==
            IF i = 0 THEN <<>>
            ELSE IF i \in ends THEN Append(f[i-1], SubSeq(text, start(i), i - 1))
            ELSE f[i-1]
    IN  f[Len(text)]

written_lines == text_lines(checksumsFile.text)

\* the directory a pack entry and a checksum line name
entry_dir(entry) == entry.download_url[2]

line_dir(line) ==
    LET sep == CHOOSE i \in 1..Len(line) :
                   /\ SubSeq(line, i, i + 1) = str_two_spaces
                   /\ \A j \in 1..(i-1) : SubSeq(line, j, j + 1) # str_two_spaces
    IN  SubSeq(line, sep + 2, Len(line) - Len(str_content_json))

line_checksum(line) ==
    LET sep == CHOOSE i \in 1..Len(line) :
                   /\ SubSeq(line, i, i + 1) = str_two_spaces
                   /\ \A j \in 1..(i-1) : SubSeq(line, j, j + 1) # str_two_spaces
    IN  SubSeq(line, 1, sep - 1)

\* s <= t on str
str_le(s, t) == ~str_lt(t, s)

ascending_ids(ps) == \A i, j \in 1..Len(ps) : i < j => str_le(ps[i].pack_id, ps[j].pack_id)

ascending_lines(ls) == \A i, j \in 1..Len(ls) : i < j => str_le(ls[i], ls[j])

same_elements(s, t) ==
    /\ Len(s) = Len(t)
    /\ \A x \in {s[i] : i \in 1..Len(s)} \cup {t[i] : i \in 1..Len(t)} :
          Cardinality({i \in 1..Len(s) : s[i] = x}) = Cardinality({i \in 1..Len(t) : t[i] = x})

(***************************************************************************)
(* C1: when a run completes, the packs written to manifest.json ascend by  *)
(* pack_id, and the lines written to checksums.sha256 ascend as strings,   *)
(* whatever order os.listdir returned.                                     *)
(***************************************************************************)
C1_SortedOutputs ==
    pc = "done" =>
        /\ ascending_ids(written_packs)
        /\ same_elements(written_packs, packs)
        /\ checksums # <<>> => ascending_lines(written_lines)

\* a completed run whose scan met two packs in descending order of both keys
C1_Witness ==
    /\ pc = "done"
    /\ Len(packs) >= 2
    /\ str_lt(packs[2].pack_id, packs[1].pack_id)
    /\ str_lt(checksums[2], checksums[1])
    /\ written_packs # packs

(***************************************************************************)
(* C3: a completed run that found no pack leaves checksums.sha256 as it    *)
(* was (absent stays absent) and still writes a manifest with no packs     *)
(* and the time of the run; a completed run that found packs writes        *)
(* checksums.sha256 with exactly the lines of the run.                     *)
(***************************************************************************)
C3_ChecksumsOnlyWithPacks ==
    pc = "done" =>
        /\ packs = <<>> =>
              /\ checksumsFile = startChecksumsFile
              /\ written_packs = <<>>
              /\ written_last_updated = strftime(clock)
        /\ packs # <<>> =>
              /\ checksumsFile.exists
              /\ same_elements(written_lines, checksums)
              /\ Len(checksumsFile.text) =
                    Len(checksums) +
                    LET n[i \in 0..Len(checksums)] ==
                            IF i = 0 THEN 0 ELSE n[i-1] + Len(checksums[i])
                    IN  n[Len(checksums)]

\* a completed run without packs that found a checksums.sha256 and a manifest
\* with packs from an earlier run
C3_Witness ==
    /\ pc = "done"
    /\ packs = <<>>
    /\ startChecksumsFile.exists
    /\ startManifestFile.kind = "dict"
    /\ entries_of(startManifestFile.dict, "packs")[1].list # <<>>

(***************************************************************************)
(* C4 as stated: the manifest a completed run writes depends on the tree   *)
(* and the clock only, so it is the manifest the run writes when it finds  *)
(* no manifest.json, and holds nothing of the file it found.               *)
(***************************************************************************)
fresh_manifest ==
    << StrEntry("last_updated", strftime(clock)), ListEntry("packs", written_packs) >>

keys_of(d) == [i \in 1..Len(d) |-> d[i].key]

other_entries(d) == SelectSeq(d, LAMBDA e : e.key \notin {"last_updated", "packs"})

qualifies(n) ==
    /\ startTree[n].kind = "dir"
    /\ n[1] # 46
    /\ n # str_pycache
    /\ startTree[n].content.state # "absent"

C6_OnlyQualifyingChildren ==
    /\ \A i \in 1..Len(packs) : \E n \in Names : n = entry_dir(packs[i]) /\ qualifies(n)
    /\ \A i \in 1..Len(checksums) : \E n \in Names : n = line_dir(checksums[i]) /\ qualifies(n)
    /\ pc = "done" =>
          \A i \in 1..Len(written_packs) :
              \E n \in Names : n = entry_dir(written_packs[i]) /\ qualifies(n)
    /\ (pc = "done" /\ packs # <<>>) =>
          \A i \in 1..Len(written_lines) :
              \E n \in Names : n = line_dir(written_lines[i]) /\ qualifies(n)
    /\ (pc = "scan" /\ idx > 1 /\ startTree[listing[idx-1]].content.state = "absent") =>
          /\ error = NoError
          /\ \A i \in 1..Len(packs) : entry_dir(packs[i]) # listing[idx-1]

\* a completed run over a directory without content.json and a hidden or cache
\* directory with content.json, which wrote a pack
C6_Witness ==
    /\ pc = "done"
    /\ written_packs # <<>>
    /\ \E n \in {str_a, str_b} :
          /\ startTree[n].kind = "dir"
          /\ startTree[n].content.state = "absent"
          /\ startTree[n].metadata.state = "file"
    /\ \E n \in {str_hidden, str_pycache} :
          startTree[n].kind = "dir" /\ startTree[n].content.state = "file"

(***************************************************************************)
(* C8: an entry's pack_id is the metadata's pack_id when metadata.json     *)
(* has a non-empty one, and otherwise the lower-cased language codes       *)
(* joined as <source>_<target>_A1; a pack whose metadata.json is absent    *)
(* or not JSON still gets its entry, with languages ["", ""], version      *)
(* "1.0.0" and pack_id "__A1".                                             *)
(***************************************************************************)
C8_PackId ==
    \A i \in 1..Len(packs) :
        LET e == packs[i]
            m == startTree[entry_dir(e)].metadata
            given == m.state = "file" /\ m.kind = "object" /\ "pack_id" \in m.obj.has
                     /\ m.obj.pack_id # <<>>
        IN  /\ given => e.pack_id = m.obj.pack_id
            /\ ~given =>
                  /\ Len(e.pack_id) = Len(e.languages[1]) + Len(e.languages[2]) + 4
                  /\ \A k \in 1..Len(e.pack_id) :
                        ~(e.pack_id[k] >= 65 /\ e.pack_id[k] <= 90) \/ k = Len(e.pack_id) - 1
                  /\ SubSeq(e.pack_id, Len(e.pack_id) - 2, Len(e.pack_id)) = <<95, 65, 49>>
                  /\ e.pack_id[Len(e.languages[1]) + 1] = 95
                  /\ \A k \in 1..Len(e.languages[1]) :
                        e.pack_id[k] \in {e.languages[1][k], e.languages[1][k] + 32}
                  /\ \A k \in 1..Len(e.languages[2]) :
                        e.pack_id[Len(e.languages[1]) + 1 + k]
                            \in {e.languages[2][k], e.languages[2][k] + 32}
            /\ (m.state = "file" /\ m.kind = "object"
                /\ {"source_language", "target_language"} \subseteq m.obj.has) =>
                  e.languages = <<m.obj.source_language, m.obj.target_language>>
            /\ (m.state = "absent" \/ m.kind = "malformed") =>
                  /\ e.languages = << <<>>, <<>> >>
                  /\ e.version = <<49, 46, 48, 46, 48>>
                  /\ e.pack_id = <<95, 95, 65, 49>>

\* a completed run over a pack with upper-case codes and no pack_id and a pack
\* without metadata.json
C8_Witness ==
    /\ pc = "done"
    /\ Len(written_packs) = 2
    /\ \E i \in 1..2 :
          /\ written_packs[i].pack_id = <<101, 110, 95, 100, 101, 95, 65, 49>>
          /\ written_packs[i].languages = <<str_EN, str_DE>>
    /\ \E i \in 1..2 :
          /\ startTree[entry_dir(written_packs[i])].metadata.state = "absent"
          /\ written_packs[i].pack_id = <<95, 95, 65, 49>>

(***************************************************************************)
(* C10: at every moment of a run the pack entries and the checksum lines   *)
(* correspond one to one: the i-th line is the i-th entry's checksum, two  *)
(* spaces, and the directory of its download_url followed by              *)
(* /content.json, and no two lines agree; the checksum is that of the      *)
(* directory's content.json.  A pack whose content.json is deleted before  *)
(* the checksum is computed gets neither, and the scan proceeds.           *)
(***************************************************************************)
C10_Lockstep ==
    /\ Len(packs) = Len(checksums)
    /\ \A i \in 1..Len(packs) :
          /\ line_checksum(checksums[i]) = packs[i].checksum
          /\ line_dir(checksums[i]) = entry_dir(packs[i])
          /\ Len(checksums[i]) = Len(packs[i].checksum) + 2 + Len(entry_dir(packs[i])) + 13
          /\ SubSeq(checksums[i], Len(checksums[i]) - 12, Len(checksums[i])) = str_content_json
          /\ packs[i].checksum = startTree[entry_dir(packs[i])].content.digest
          /\ packs[i].checksum # <<>>
    /\ \A i, j \in 1..Len(packs) : entry_dir(packs[i]) = entry_dir(packs[j]) => i = j
    /\ (pc = "done" /\ packs # <<>>) =>
          /\ Len(written_lines) = Len(written_packs)
          /\ \A i \in 1..Len(written_packs) :
                Cardinality({j \in 1..Len(written_lines) :
                    /\ line_checksum(written_lines[j]) = written_packs[i].checksum
                    /\ line_dir(written_lines[j]) = entry_dir(written_packs[i])}) = 1
    /\ (lastRace = "before_sha256" /\ pc \in {"scan", "done"}) =>
          /\ error = NoError
          /\ \A i \in 1..Len(packs) : entry_dir(packs[i]) # listing[idx-1]
    /\ lastRace = "before_sha256" => error.where # "pack"

\* a completed run in which one content.json was deleted before its checksum
\* was computed and another pack was listed
C10_Witness ==
    /\ pc = "done"
    /\ vanishLeft < MaxVanish
    /\ Len(packs) = 1
    /\ \E n \in {str_a, str_b} :
          /\ qualifies(n)
          /\ tree[n].content.state = "absent"
          /\ n # entry_dir(packs[1])
    /\ Len(written_lines) = 1

(***************************************************************************)
(* C2 as stated: no unreadable content.json and no malformed or            *)
(* unexpectedly shaped JSON in content.json or metadata.json ends the run  *)
(* with an exception.                                                      *)
(***************************************************************************)
C2_NoPackAbortsTheRun ==
    ~(pc = "failed" /\ error.where = "pack")

(***************************************************************************)
(* C5 as stated: a completed run over the tree that the previous run       *)
(* scanned, unchanged, writes a manifest that differs from the previous    *)
(* one in last_updated at most, and the same checksums.sha256.             *)
(***************************************************************************)
without_last_updated(d) ==
    [i \in 1..Len(d) |-> IF d[i].key = "last_updated" THEN StrEntry("last_updated", <<>>) ELSE d[i]]

C5_RerunChangesOnlyLastUpdated ==
    (pc = "done" /\ run >= 2 /\ prevTree = tree /\ startManifestFile.kind = "dict") =>
        /\ without_last_updated(manifestFile.dict) = without_last_updated(startManifestFile.dict)
        /\ checksumsFile = startChecksumsFile

\* os.listdir in ascending order of the names
listdir_ascending(t) == CHOOSE l \in listdir(t) : \A i, j \in 1..Len(l) : i < j => str_lt(l[i], l[j])

\* the packs and checksums lists after a scan of listing l in which no file is deleted
scan(t, l) ==
    LET f[i \in 0..Len(l)] ==
            IF i = 0 THEN [packs |-> <<>>, checksums |-> <<>>]
            ELSE IF ~is_candidate(t, l[i]) \/ ~has_content(t, l[i]) THEN f[i-1]
            ELSE [packs |-> Append(f[i-1].packs, process_pack(t, l[i], "none").entry),
                  checksums |-> Append(f[i-1].checksums, process_pack(t, l[i], "none").line)]
    IN  f[Len(l)]

(***************************************************************************)
(* C7 as stated: for a fixed tree every order of os.listdir gives the same *)
(* packs sequence and the same checksum lines, so each completed run over  *)
(* an unchanged tree writes what the scan in ascending order of the names  *)
(* writes, also when two packs have the same pack_id.                      *)
(***************************************************************************)
C7_OrderIndependent ==
    (pc = "done" /\ tree = startTree) =>
        /\ written_packs = sorted_packs(scan(startTree, listdir_ascending(startTree)).packs)
        /\ packs # <<>> =>
              checksumsFile.text = checksums_text(scan(startTree, listdir_ascending(startTree)).checksums)

(***************************************************************************)
(* The content documents with at most MaxCats categories of at most        *)
(* MaxCards cards, for the scan of a single pack directory.                *)
(***************************************************************************)
GeneratedCategories ==
    {Category(FALSE, <<>>)} \cup {Category(TRUE, [j \in 1..n |-> j]) : n \in 0..MaxCards}

GeneratedDocs ==
    {ContentObject(FALSE, <<>>)}
    \cup {ContentObject(TRUE, cats) :
             cats \in UNION {[1..k -> GeneratedCategories] : k \in 0..MaxCats}}

\* the length of the compact JSON text of a generated document
json_len(obj) ==
    LET cat_len(c) == IF ~c.has_cards THEN 2
                      ELSE IF c.cards = <<>> THEN 12
                      ELSE 11 + 2 * Len(c.cards)
        n[i \in 0..Len(obj.categories)] ==
            IF i = 0 THEN 0 ELSE n[i-1] + cat_len(obj.categories[i]) + (IF i > 1 THEN 1 ELSE 0)
    IN  IF "categories" \in obj.has THEN 17 + n[Len(obj.categories)] ELSE 2

TreeOfOnePack(obj) ==
    [n \in Names |->
        CASE n = str_a -> Directory(ContentFile("object", obj, digest_2, json_len(obj)), AbsentFile)
          [] n = str_b -> RegularFile
          [] OTHER -> NoChild]

InitCount ==
    \E obj \in GeneratedDocs :
        InitWith(TreeOfOnePack(obj),
                 [m |-> NoManifestFile, c |-> [exists |-> FALSE, text |-> EmptyStr]])

SpecCount == InitCount /\ [][Next]_vars

\* the cards of a document: the pairs (category, position in its cards)
cards_of(obj) ==
    IF "categories" \notin obj.has THEN {}
    ELSE UNION { {<<i, j>> : j \in 1..Len(obj.categories[i].cards)} :
                    i \in {k \in 1..Len(obj.categories) : obj.categories[k].has_cards} }

(***************************************************************************)
(* C9: the size of the entry of a pack whose content.json is a document    *)
(* of categories and cards is the number of cards of all its categories;   *)
(* a document without "categories", one with no categories and a category  *)
(* without "cards" count 0 there, and none of them ends the run with an    *)
(* exception.  (A content.json deleted during the run counts 0.)           *)
(***************************************************************************)
C9_SizeIsCardCount ==
    /\ pc # "failed"
    /\ \A i \in 1..Len(packs) :
          LET file == startTree[entry_dir(packs[i])].content
          IN  packs[i].size =
                 IF tree[entry_dir(packs[i])].content.state = "file"
                 THEN Cardinality(cards_of(file.obj))
                 ELSE 0

\* a completed run over a document of three categories, one of them without
\* "cards", with four cards in all
C9_Witness ==
    /\ pc = "done"
    /\ Len(written_packs) = 1
    /\ written_packs[1].size = 4
    /\ LET cats == startTree[str_a].content.obj.categories
       IN  /\ Len(cats) = 3
           /\ \E k \in 1..3 : ~cats[k].has_cards
           /\ \E k \in 1..3 : Len(cats[k].cards) = 2

====
